---- MODULE Spec2Model ----
(***************************************************************************)
(* A model of kfp/components/pipeline_channel.py: pipeline channels, their *)
(* placeholder encoding and decoding, and the OneOf aggregation with its   *)
(* construction-time and topology validation.                              *)
(*                                                                         *)
(* Strings are sequences of one-character strings, so that formatting and  *)
(* regular-expression matching are computed character by character.        *)
(* Python values (None, str, int, bool, dict) are records                  *)
(* [k, s, n, items] with k the Python type.                                *)
(***************************************************************************)
EXTENDS Integers, Sequences, FiniteSets, TLC

VARIABLES
    op,         \* the last channel operation and its arguments
    res,        \* its outcome: a channel, or the error raised
    extracted,  \* outcome of extract_pipeline_channels_from_string(str(res.ch))
    pair,       \* two constructed channels (SpecPair)
    groups,     \* group name -> [group_type, parent]
    tasks,      \* task name -> name of the enclosing group
    stack,      \* the stack of open groups, root first
    oneof,      \* the `outputs` of the OneOf being constructed
    ctor,       \* outcome of OneOf.__init__
    topo,       \* outcome of OneOf._validate_topology
    input,    \* the argument of extract_pipeline_channels_from_any (SpecAny)
    channels    \* outcome of extract_pipeline_channels_from_any(input)

vars == <<op, res, extracted, pair, groups, tasks, stack, oneof, ctor, topo,
          input, channels>>
chanVars == <<op, res, extracted>>
treeVars == <<groups, tasks, stack, oneof, ctor, topo>>
anyVars == <<input, channels>>

(***************************************************************************)
(* Bounds of the model.                                                    *)
(***************************************************************************)
MaxNameLen == 2
MaxTaskLen == 1
MaxTasks == 2
\* The values in a payload: containers and their elements, keys not counted.
MaxNodes == 4

(***************************************************************************)
(* Characters and the character classes of Python's re module (ASCII).     *)
(***************************************************************************)
Lower == {"a","b","c","d","e","f","g","h","i","j","k","l","m",
          "n","o","p","q","r","s","t","u","v","w","x","y","z"}
Upper == {"A","B","C","D","E","F","G","H","I","J","K","L","M",
          "N","O","P","Q","R","S","T","U","V","W","X","Y","Z"}
Letters == Lower \cup Upper
Digits == {"0","1","2","3","4","5","6","7","8","9"}
\* \w
WordChars == Letters \cup Digits \cup {"_"}
\* \s
SpaceChars == {" ", "\t", "\n", "\r", "\f"}

\* The strings over alphabet A of length at most n.
StringsUpTo(A, n) == UNION {[1..m -> A] : m \in 0..n}

\* Whether literal lit occurs in s at position i.
HasLit(s, i, lit) ==
    /\ i >= 1
    /\ i + Len(lit) - 1 <= Len(s)
    /\ \A j \in 1..Len(lit) : s[i + j - 1] = lit[j]

\* The end (exclusive) of the longest run of characters of class cls in s
\* starting at position i: what a greedy cls* consumes.
RECURSIVE RunEnd(_, _, _)
RunEnd(s, i, cls) ==
    IF i <= Len(s) /\ s[i] \in cls THEN RunEnd(s, i + 1, cls) ELSE i

Slice(s, i, j) == IF j <= i THEN <<>> ELSE SubSeq(s, i, j - 1)

(***************************************************************************)
(* Python values.                                                          *)
(***************************************************************************)
PyNone == [k |-> "none", s |-> <<>>, n |-> 0, items |-> <<>>]
PyStr(s) == [k |-> "str", s |-> s, n |-> 0, items |-> <<>>]
PyInt(n) == [k |-> "int", s |-> <<>>, n |-> n, items |-> <<>>]
PyBool(b) == [k |-> "bool", s |-> <<>>, n |-> IF b THEN 1 ELSE 0, items |-> <<>>]
\* items: a sequence of [key |-> string, val |-> value], in insertion order
PyDict(items) == [k |-> "dict", s |-> <<>>, n |-> 0, items |-> items]

\* bool(v)
Truthy(v) ==
    CASE v.k = "none" -> FALSE
      [] v.k = "str" -> v.s # <<>>
      [] v.k = "int" -> v.n # 0
      [] v.k = "bool" -> v.n # 0
      [] v.k = "dict" -> v.items # <<>>

DigitChar == <<"0","1","2","3","4","5","6","7","8","9">>

DigitValue(c) == CHOOSE d \in 0..9 : DigitChar[d + 1] = c

\* str(n) for an int n
RECURSIVE IntToStr(_)
IntToStr(n) ==
    IF n < 0 THEN <<"-">> \o IntToStr(0 - n)
    ELSE IF n < 10 THEN <<DigitChar[n + 1]>>
    ELSE IntToStr(n \div 10) \o <<DigitChar[(n % 10) + 1]>>

(***************************************************************************)
(* json.dumps and json.loads.                                              *)
(***************************************************************************)
RECURSIVE JsonDumps(_)
RECURSIVE DumpItems(_, _)
DumpItems(items, i) ==
    IF i > Len(items) THEN <<>>
    ELSE (IF i > 1 THEN <<",", " ">> ELSE <<>>)
         \o <<"\"">> \o items[i].key \o <<"\"", ":", " ">>
         \o JsonDumps(items[i].val)
         \o DumpItems(items, i + 1)

JsonDumps(v) ==
    CASE v.k = "none" -> <<"n","u","l","l">>
      [] v.k = "str" -> <<"\"">> \o v.s \o <<"\"">>
      [] v.k = "int" -> IntToStr(v.n)
      [] v.k = "bool" -> IF v.n # 0 THEN <<"t","r","u","e">>
                         ELSE <<"f","a","l","s","e">>
      [] v.k = "dict" -> <<"{">> \o DumpItems(v.items, 1) \o <<"}">>

JsonWs == {" ", "\t", "\n", "\r"}
SkipWs(s, i) == RunEnd(s, i, JsonWs)

JsonFail == [ok |-> FALSE, val |-> PyNone, next |-> 0]
JsonOk(v, next) == [ok |-> TRUE, val |-> v, next |-> next]

\* The characters a JSON string may hold unescaped, among those the model uses.
JsonPlain == (WordChars \cup {" ", "-", "{", "}", ":", ".", ",", "!", ";", "="})

RECURSIVE DecValue(_, _, _)
DecValue(s, i, j) ==
    IF j <= i THEN 0 ELSE DecValue(s, i, j - 1) * 10 + DigitValue(s[j - 1])

\* A JSON string starting at the quote at position i.
ParseString(s, i) ==
    LET e == RunEnd(s, i + 1, JsonPlain)
    IN IF e <= Len(s) /\ s[e] = "\""
       THEN JsonOk(PyStr(Slice(s, i + 1, e)), e + 1)
       ELSE JsonFail

\* A JSON integer starting at position i (an optional "-", then digits
\* without a leading zero).
ParseInt(s, i) ==
    LET neg == i <= Len(s) /\ s[i] = "-"
        d == IF neg THEN i + 1 ELSE i
        e == RunEnd(s, d, Digits)
    IN IF e = d \/ (s[d] = "0" /\ e > d + 1) THEN JsonFail
       ELSE IF e <= Len(s) /\ s[e] \in {".", "e", "E"} THEN JsonFail
       ELSE JsonOk(PyInt(IF neg THEN 0 - DecValue(s, d, e) ELSE DecValue(s, d, e)), e)

RECURSIVE ParseValue(_, _)
RECURSIVE ParseMembers(_, _, _)
\* The members of an object, from position i (after "{" or ","), given the
\* members read so far.  A repeated key keeps its place and takes the last value.
ParseMembers(s, i, acc) ==
    LET ks == SkipWs(s, i)
    IN IF ~(ks <= Len(s) /\ s[ks] = "\"") THEN JsonFail
       ELSE LET key == ParseString(s, ks)
            IN IF ~key.ok THEN JsonFail
               ELSE LET c == SkipWs(s, key.next)
                    IN IF ~(c <= Len(s) /\ s[c] = ":") THEN JsonFail
                       ELSE LET v == ParseValue(s, SkipWs(s, c + 1))
                            IN IF ~v.ok THEN JsonFail
                               ELSE LET n == SkipWs(s, v.next)
                                        item == [key |-> key.val.s, val |-> v.val]
                                        same == {x \in 1..Len(acc) : acc[x].key = item.key}
                                        acc2 == IF same = {} THEN Append(acc, item)
                                                ELSE [x \in 1..Len(acc) |->
                                                        IF x \in same THEN item ELSE acc[x]]
                                    IN IF n > Len(s) THEN JsonFail
                                       ELSE IF s[n] = "}" THEN JsonOk(PyDict(acc2), n + 1)
                                       ELSE IF s[n] = "," THEN ParseMembers(s, n + 1, acc2)
                                       ELSE JsonFail

\* A JSON value starting at position i (no leading whitespace).
ParseValue(s, i) ==
    IF i > Len(s) THEN JsonFail
    ELSE IF s[i] = "\"" THEN ParseString(s, i)
    ELSE IF s[i] = "{" THEN
        LET n == SkipWs(s, i + 1)
        IN IF n <= Len(s) /\ s[n] = "}" THEN JsonOk(PyDict(<<>>), n + 1)
           ELSE ParseMembers(s, i + 1, <<>>)
    ELSE IF s[i] = "-" \/ s[i] \in Digits THEN ParseInt(s, i)
    ELSE IF HasLit(s, i, <<"t","r","u","e">>) THEN JsonOk(PyBool(TRUE), i + 4)
    ELSE IF HasLit(s, i, <<"f","a","l","s","e">>) THEN JsonOk(PyBool(FALSE), i + 5)
    ELSE IF HasLit(s, i, <<"n","u","l","l">>) THEN JsonOk(PyNone, i + 4)
    ELSE JsonFail

\* json.loads(s): [ok, val]; ok is FALSE where json raises JSONDecodeError.
\* Covers objects, strings without escapes, integers, true, false and null;
\* arrays and floats do not occur in the texts the model decodes.
JsonLoads(s) ==
    LET v == ParseValue(s, SkipWs(s, 1))
    IN IF v.ok /\ SkipWs(s, v.next) > Len(s) THEN v ELSE JsonFail

(***************************************************************************)
(* The type classifier type_utils.is_parameter_type: the primitive types   *)
(* are parameter types, every other type tag is an artifact type.          *)
(***************************************************************************)
ParameterTypeNames == {
    <<"S","t","r","i","n","g">>,
    <<"I","n","t","e","g","e","r">>,
    <<"F","l","o","a","t">>,
    <<"B","o","o","l","e","a","n">>,
    <<"L","i","s","t">>,
    <<"D","i","c","t">>}

is_parameter_type(channel_type) ==
    channel_type.k = "str" /\ channel_type.s \in ParameterTypeNames

(***************************************************************************)
(* Channels.                                                               *)
(***************************************************************************)
NoChannel == [variant |-> "none", name |-> <<>>, channel_type |-> PyNone,
              task_name |-> PyNone, value |-> PyNone]

Raised(e) == [ok |-> FALSE, err |-> e, ch |-> NoChannel]
Returned(c) == [ok |-> TRUE, err |-> "none", ch |-> c]

\* re.match(r'^[A-Za-z][A-Za-z0-9\s_-]*$', name)
valid_name_regex(name) ==
    /\ Len(name) >= 1
    /\ name[1] \in Letters
    /\ \A i \in 2..Len(name) :
          name[i] \in Letters \cup Digits \cup SpaceChars \cup {"_", "-"}

\* PipelineChannel.__init__, for the subclass `variant`; `value` is the
\* attribute PipelineParameterChannel.__init__ has set before calling it.
PipelineChannelInit(variant, name, channel_type, task_name, value) ==
    IF ~valid_name_regex(name) THEN Raised("InvalidName")
    ELSE Returned([variant |-> variant,
                   name |-> name,
                   channel_type |-> channel_type,
                   task_name |-> IF Truthy(task_name) THEN task_name ELSE PyNone,
                   value |-> value])

PipelineParameterChannel(name, channel_type, task_name, value) ==
    IF Truthy(task_name) /\ Truthy(value)
    THEN Raised("ConflictingChannelSource")
    ELSE IF ~is_parameter_type(channel_type) THEN Raised("TypeMismatch")
    ELSE PipelineChannelInit("parameter", name, channel_type, task_name, value)

PipelineArtifactChannel(name, channel_type, task_name) ==
    IF is_parameter_type(channel_type) THEN Raised("TypeMismatch")
    ELSE PipelineChannelInit("artifact", name, channel_type, task_name, PyNone)

create_pipeline_channel(name, channel_type, task_name, value) ==
    IF is_parameter_type(channel_type)
    THEN PipelineParameterChannel(name, channel_type, task_name, value)
    ELSE PipelineArtifactChannel(name, channel_type, task_name)

\* What '%s' formatting makes of a value.
PyFormat(v) ==
    CASE v.k = "none" -> <<"N","o","n","e">>
      [] v.k = "str" -> v.s
      [] v.k = "int" -> IntToStr(v.n)
      [] v.k = "bool" -> IF v.n # 0 THEN <<"T","r","u","e">>
                         ELSE <<"F","a","l","s","e">>
      [] v.k = "dict" -> <<"{">> \o DumpItems(v.items, 1) \o <<"}">>

PlaceholderTask == <<"{","{","c","h","a","n","n","e","l",":","t","a","s","k","=">>
PlaceholderName == <<";","n","a","m","e","=">>
PlaceholderType == <<";","t","y","p","e","=">>
PlaceholderEnd == <<";","}","}">>

\* PipelineChannel.__str__ (also pattern, __repr__ and the key of __hash__)
ChannelStr(c) ==
    LET task_name == IF Truthy(c.task_name) THEN c.task_name ELSE PyStr(<<>>)
        ct == IF Truthy(c.channel_type) THEN c.channel_type ELSE PyStr(<<>>)
        channel_type == IF ct.k = "dict" THEN JsonDumps(ct) ELSE PyFormat(ct)
    IN PlaceholderTask \o task_name.s \o PlaceholderName \o c.name
       \o PlaceholderType \o channel_type \o PlaceholderEnd

(***************************************************************************)
(* _PIPELINE_CHANNEL_PLACEHOLDER_REGEX and re.findall.                     *)
(***************************************************************************)
TaskClass == WordChars \cup SpaceChars \cup {"_", "-"}
NameClass == WordChars \cup SpaceChars \cup {"_", "-"}
TypeClass == WordChars \cup SpaceChars \cup {"{", "}", "\"", ":", "_", "-"}

NoMatch == [found |-> FALSE, task_name |-> <<>>, name |-> <<>>,
            channel_type |-> <<>>, end |-> 0]

\* The match of the placeholder regex starting exactly at position i.  No
\* class holds ";", so each greedy run ends where the next literal must begin.
MatchAt(s, i) ==
    LET ts == i + Len(PlaceholderTask)
        te == RunEnd(s, ts, TaskClass)
        ns == te + Len(PlaceholderName)
        ne == RunEnd(s, ns, NameClass)
        ys == ne + Len(PlaceholderType)
        ye == RunEnd(s, ys, TypeClass)
    IN IF /\ HasLit(s, i, PlaceholderTask)
          /\ HasLit(s, te, PlaceholderName)
          /\ ne > ns
          /\ HasLit(s, ne, PlaceholderType)
          /\ HasLit(s, ye, PlaceholderEnd)
       THEN [found |-> TRUE, task_name |-> Slice(s, ts, te),
             name |-> Slice(s, ns, ne), channel_type |-> Slice(s, ys, ye),
             end |-> ye + Len(PlaceholderEnd)]
       ELSE NoMatch

\* re.findall(regex, s) from position i: the non-overlapping matches, left to right.
RECURSIVE FindAll(_, _)
FindAll(s, i) ==
    IF i > Len(s) THEN <<>>
    ELSE LET m == MatchAt(s, i)
         IN IF m.found THEN <<m>> \o FindAll(s, m.end)
            ELSE FindAll(s, i + 1)

\* The channel the loop body of extract_pipeline_channels_from_string builds
\* from one match.
ChannelOfMatch(m) ==
    LET loaded == JsonLoads(m.channel_type)
        channel_type == IF loaded.ok THEN loaded.val ELSE PyStr(m.channel_type)
    IN IF is_parameter_type(channel_type)
       THEN PipelineParameterChannel(m.name, channel_type, PyStr(m.task_name), PyNone)
       ELSE PipelineArtifactChannel(m.name, channel_type, PyStr(m.task_name))

\* A set keyed by the attributes of the channel instead of its placeholder.
SetAddByAttributes(set, c) == set \cup {c}

\* set.add: a set keyed by __hash__, hash(str(channel)); __eq__ returns a
\* ConditionOperator, which is truthy, so an equal hash is an equal element.
\* hash() of two different placeholders is taken to differ.
SetAdd(set, c) ==
    IF \E d \in set : ChannelStr(d) = ChannelStr(c) THEN set ELSE set \cup {c}

RECURSIVE ExtractLoop(_, _, _)
ExtractLoop(matches, i, unique_channels) ==
    IF i > Len(matches) THEN [ok |-> TRUE, err |-> "none", chans |-> unique_channels]
    ELSE LET r == ChannelOfMatch(matches[i])
         IN IF ~r.ok THEN [ok |-> FALSE, err |-> r.err, chans |-> {}]
            ELSE ExtractLoop(matches, i + 1, SetAdd(unique_channels, r.ch))

\* The one-element sets give the text and the list of matches a value once.
extract_pipeline_channels_from_string(payload) ==
    CHOOSE r \in {ExtractLoop(matches, 1, {}) :
                     matches \in {FindAll(s, 1) : s \in {payload}}} : TRUE

(***************************************************************************)
(* The inputs of the channel operations.                                   *)
(***************************************************************************)
\* A letter, a digit, whitespace other than a space, and a separator of the
\* placeholder format.
NameAlphabet == {"a", "1", "\n", ";"}
NameInputs == StringsUpTo(NameAlphabet, MaxNameLen)
TaskInputs == {PyNone} \cup {PyStr(s) : s \in StringsUpTo(NameAlphabet, MaxTaskLen)}
ValueInputs == {PyNone, PyInt(0), PyInt(7), PyStr(<<>>)}

DictAB == PyDict(<< [key |-> <<"a">>, val |-> PyStr(<<"b">>)] >>)
DictABCD == PyDict(<< [key |-> <<"a">>, val |-> PyStr(<<"b">>)],
                      [key |-> <<"c">>, val |-> PyStr(<<"d">>)] >>)
TypeInputs == {
    PyStr(<<"S","t","r","i","n","g">>),
    PyStr(<<"I","n","t","e","g","e","r">>),
    PyStr(<<"M","o","d","e","l">>),
    PyStr(<<"a",".","b">>),
    PyStr(<<"7">>),
    PyStr(<<>>),
    PyStr(<<"{","\"","a","\"",":"," ","\"","b","\"","}">>),
    DictAB,
    DictABCD}

NoOp == [fn |-> "none", name |-> <<>>, channel_type |-> PyNone,
         task_name |-> PyNone, value |-> PyNone]
NotExtracted == [done |-> FALSE, ok |-> FALSE, err |-> "none", chans |-> {}]

(***************************************************************************)
(* The channel operations.                                                 *)
(***************************************************************************)
NewParameterChannel ==
    /\ op = NoOp
    /\ \E name \in NameInputs, channel_type \in TypeInputs,
       task_name \in TaskInputs, value \in ValueInputs :
           /\ op' = [fn |-> "PipelineParameterChannel", name |-> name,
                     channel_type |-> channel_type, task_name |-> task_name,
                     value |-> value]
           /\ res' = PipelineParameterChannel(name, channel_type, task_name, value)
           /\ extracted' = NotExtracted
           /\ UNCHANGED <<pair, treeVars, anyVars>>

NewArtifactChannel ==
    /\ op = NoOp
    /\ \E name \in NameInputs, channel_type \in TypeInputs, task_name \in TaskInputs :
           /\ op' = [fn |-> "PipelineArtifactChannel", name |-> name,
                     channel_type |-> channel_type, task_name |-> task_name,
                     value |-> PyNone]
           /\ res' = PipelineArtifactChannel(name, channel_type, task_name)
           /\ extracted' = NotExtracted
           /\ UNCHANGED <<pair, treeVars, anyVars>>

CreatePipelineChannel ==
    /\ op = NoOp
    /\ \E name \in NameInputs, channel_type \in TypeInputs,
       task_name \in TaskInputs, value \in ValueInputs :
           /\ op' = [fn |-> "create_pipeline_channel", name |-> name,
                     channel_type |-> channel_type, task_name |-> task_name,
                     value |-> value]
           /\ res' = create_pipeline_channel(name, channel_type, task_name, value)
           /\ extracted' = NotExtracted
           /\ UNCHANGED <<pair, treeVars, anyVars>>

\* extract_pipeline_channels_from_string(str(c)) for the channel c just built
ExtractFromString ==
    /\ res.ok
    /\ ~extracted.done
    /\ \E payload \in {ChannelStr(res.ch)} :
          \E r \in {extract_pipeline_channels_from_string(payload)} :
             extracted' = [done |-> TRUE, ok |-> r.ok, err |-> r.err,
                           chans |-> r.chans]
    /\ UNCHANGED <<op, res, pair, treeVars, anyVars>>

(***************************************************************************)
(* The group tree of the pipeline under construction (tasks_group,         *)
(* pipeline_context) and the topology resolver (compiler_utils).           *)
(***************************************************************************)
RootGroup == <<"group", 0>>
GroupName(i) == <<"group", i>>
TaskName(i) == <<"task", i>>
TaskNames == {TaskName(i) : i \in 1..MaxTasks}
\* The names of the groups an author opens, in the order they are opened.
GroupNames == {GroupName(1), GroupName(2), GroupName(3)}

\* The group types a pipeline author can open; the root's type is PIPELINE.
TasksGroupType == {"CONDITION", "FOR_LOOP", "EXIT_HANDLER"}

\* Opening a group inside the current one.
EnterGroup ==
    /\ ctor = "none"
    /\ GroupName(Cardinality(DOMAIN groups)) \in GroupNames
    /\ \E group_type \in TasksGroupType :
        /\ LET g == GroupName(Cardinality(DOMAIN groups))
           IN /\ groups' = [x \in DOMAIN groups \cup {g} |->
                              IF x = g
                              THEN [group_type |-> group_type,
                                    parent |-> stack[Len(stack)]]
                              ELSE groups[x]]
              /\ stack' = Append(stack, g)
        /\ UNCHANGED <<chanVars, pair, anyVars,tasks, oneof, ctor, topo>>

\* Leaving the current group.
ExitGroup ==
    /\ ctor = "none"
    /\ Len(stack) > 1
    /\ stack' = SubSeq(stack, 1, Len(stack) - 1)
    /\ UNCHANGED <<chanVars, pair, anyVars,groups, tasks, oneof, ctor, topo>>

\* Adding a task to the current group.
AddTask ==
    /\ ctor = "none"
    /\ Cardinality(DOMAIN tasks) < MaxTasks
    /\ LET t == TaskName(Cardinality(DOMAIN tasks) + 1)
       IN tasks' = [x \in DOMAIN tasks \cup {t} |->
                      IF x = t THEN stack[Len(stack)] ELSE tasks[x]]
    /\ UNCHANGED <<chanVars, pair, anyVars,groups, stack, oneof, ctor, topo>>

\* The groups enclosing group g, innermost first, the root last.
RECURSIVE GroupChain(_)
GroupChain(g) ==
    IF g = RootGroup THEN <<g>> ELSE <<g>> \o GroupChain(groups[g].parent)

\* compiler_utils.get_parent_groups: for every task of the tree its own name
\* and the names of its enclosing groups.
get_parent_groups == [t \in DOMAIN tasks |-> <<t>> \o GroupChain(tasks[t])]

\* compiler_utils.get_all_groups, indexed by name.
group_name_to_group == groups

(***************************************************************************)
(* OneOf.                                                                  *)
(***************************************************************************)
ChannelTypes == {"String", "Integer"}
NoTask == <<"none", 0>>
OutputNames == {"a", "b"}
Constant == [kind |-> "constant", name |-> "none", task_name |-> NoTask,
             channel_type |-> "none"]
TaskOutput(t, name, ty) ==
    [kind |-> "channel", name |-> name, task_name |-> t, channel_type |-> ty]
PipelineParameter(ty) ==
    [kind |-> "channel", name |-> "p", task_name |-> NoTask, channel_type |-> ty]

\* What can be passed to OneOf: constants, pipeline parameters, task outputs.
Operands ==
    {Constant} \cup {PipelineParameter(ty) : ty \in ChannelTypes}
    \cup {TaskOutput(t, name, ty) :
             t \in TaskNames, name \in OutputNames, ty \in ChannelTypes}
\* OneOf() with no output, with one, and with two.
OutputArities == {0, 1, 2}
OutputTuples == UNION {[1..n -> Operands] : n \in OutputArities}

\* OneOf._validate_tuple: "ok", or the error raised.
_validate_tuple(outputs) ==
    LET constants == {i \in 1..Len(outputs) : outputs[i].kind # "channel"}
        pipeline_parameters ==
            {i \in 1..Len(outputs) : outputs[i].task_name = NoTask}
    IN IF constants # {} THEN "InvalidOperand"
       ELSE IF pipeline_parameters # {} THEN "InvalidOperand"
       ELSE IF Len(outputs) = 0 THEN "IndexError"
       ELSE IF \E i \in 1..Len(outputs) :
                  outputs[i].channel_type # outputs[1].channel_type
       THEN "TypeMismatch"
       ELSE IF Len(outputs) < 2 THEN "ArityViolation"
       ELSE "ok"

\* OneOf._branch_tasks
_branch_tasks(outputs) == {outputs[i].task_name : i \in 1..Len(outputs)}

\* list.remove(x): the list without the first occurrence of x.
ListRemove(list, x) ==
    LET at == CHOOSE i \in 1..Len(list) :
                  list[i] = x /\ \A j \in 1..(i - 1) : list[j] # x
    IN SubSeq(list, 1, at - 1) \o SubSeq(list, at + 1, Len(list))

\* The dictionary _validate_topology builds: each branch task found in the
\* tree, with the names of its parent groups, itself removed.
oneof_task_names_to_parents_no_self(outputs) ==
    [t \in DOMAIN get_parent_groups \cap _branch_tasks(outputs) |->
        ListRemove(get_parent_groups[t], t)]

HasParentOfType(parents, group_type) ==
    \E i \in 1..Len(parents) :
        group_name_to_group[parents[i]].group_type = group_type

\* As _validate_no_parallel_for_parents, looking only at the innermost group.
NearestParentIsParallelFor(task_name_to_parents) ==
    \E t \in DOMAIN task_name_to_parents :
        group_name_to_group[task_name_to_parents[t][1]].group_type = "FOR_LOOP"

\* TRUE where the method raises.
_validate_no_parallel_for_parents(task_name_to_parents) ==
    \E t \in DOMAIN task_name_to_parents :
        HasParentOfType(task_name_to_parents[t], "FOR_LOOP")

\* As _validate_no_shared_condition_parents, grouping each task under its
\* innermost group only.
SharedNearestCondition(task_name_to_parents) ==
    \E c \in DOMAIN group_name_to_group :
        /\ group_name_to_group[c].group_type = "CONDITION"
        /\ Cardinality({t \in DOMAIN task_name_to_parents :
                           task_name_to_parents[t][1] = c}) > 1

_validate_no_shared_condition_parents(task_name_to_parents) ==
    LET parent_condition_to_task(c) ==
            {t \in DOMAIN task_name_to_parents :
                \E i \in 1..Len(task_name_to_parents[t]) :
                    task_name_to_parents[t][i] = c}
    IN \E c \in DOMAIN group_name_to_group :
          /\ group_name_to_group[c].group_type = "CONDITION"
          /\ Cardinality(parent_condition_to_task(c)) > 1

_validate_all_tasks_have_condition_parents(task_name_to_parents) ==
    \E t \in DOMAIN task_name_to_parents :
        ~HasParentOfType(task_name_to_parents[t], "CONDITION")

\* As _validate_topology, with the three checks called in the order
\* condition parents, shared condition parents, parallel-for parents.
ValidateTopologyConditionFirst(outputs) ==
    LET parents == oneof_task_names_to_parents_no_self(outputs)
    IN IF _validate_all_tasks_have_condition_parents(parents)
       THEN "MissingConditionAncestor"
       ELSE IF _validate_no_shared_condition_parents(parents)
       THEN "NonExclusiveBranches"
       ELSE IF _validate_no_parallel_for_parents(parents) THEN "LoopNotAllowed"
       ELSE "ok"

\* OneOf._validate_topology: "ok", or the error of the first check that raises.
_validate_topology(outputs) ==
    LET parents == oneof_task_names_to_parents_no_self(outputs)
    IN IF _validate_no_parallel_for_parents(parents) THEN "LoopNotAllowed"
       ELSE IF _validate_no_shared_condition_parents(parents)
       THEN "NonExclusiveBranches"
       ELSE IF _validate_all_tasks_have_condition_parents(parents)
       THEN "MissingConditionAncestor"
       ELSE "ok"

\* OneOf(*outputs), called once the groups are closed.
NewOneOf ==
    /\ ctor = "none"
    /\ Len(stack) = 1
    /\ \E outputs \in OutputTuples :
        /\ oneof' = outputs
        /\ ctor' = _validate_tuple(outputs)
        /\ UNCHANGED <<chanVars, pair, anyVars,groups, tasks, stack, topo>>

\* oneof._validate_topology(), on the finished tree.
ValidateTopology ==
    /\ ctor = "ok"
    /\ topo = "none"
    /\ topo' = _validate_topology(oneof)
    /\ UNCHANGED <<chanVars, pair, anyVars,groups, tasks, stack, oneof, ctor>>

(***************************************************************************)
(* Two channels built one after the other, to compare their placeholders.  *)
(***************************************************************************)
NoPair == <<NoChannel, NoChannel>>

FirstOfPair ==
    /\ pair = NoPair
    /\ \E name \in NameInputs, channel_type \in TypeInputs, task_name \in TaskInputs :
          \E r \in {create_pipeline_channel(name, channel_type, task_name, PyNone)} :
             /\ r.ok
             /\ pair' = <<r.ch, NoChannel>>
    /\ UNCHANGED <<chanVars, treeVars, anyVars>>

SecondOfPair ==
    /\ pair[1] # NoChannel
    /\ pair[2] = NoChannel
    /\ \E name \in NameInputs, channel_type \in TypeInputs, task_name \in TaskInputs :
          \E r \in {create_pipeline_channel(name, channel_type, task_name, PyNone)} :
             /\ r.ok
             /\ pair' = <<pair[1], r.ch>>
    /\ UNCHANGED <<chanVars, treeVars, anyVars>>

(***************************************************************************)
(* extract_pipeline_channels_from_any.  A payload is a record              *)
(* [k, s, n, ch, items]: k is its Python type; items holds the elements of *)
(* a list or tuple, or the [key, val] items of a dict in insertion order.  *)
(***************************************************************************)
NoPayload == [k |-> "unset", s |-> <<>>, n |-> 0, ch |-> NoChannel, items |-> <<>>]
PayNone == [k |-> "none", s |-> <<>>, n |-> 0, ch |-> NoChannel, items |-> <<>>]
PayInt(n) == [k |-> "int", s |-> <<>>, n |-> n, ch |-> NoChannel, items |-> <<>>]
PayStr(s) == [k |-> "str", s |-> s, n |-> 0, ch |-> NoChannel, items |-> <<>>]
PayChannel(c) == [k |-> "channel", s |-> <<>>, n |-> 0, ch |-> c, items |-> <<>>]
PaySequence(kind, items) ==
    [k |-> kind, s |-> <<>>, n |-> 0, ch |-> NoChannel, items |-> items]
PayDict(items) == [k |-> "dict", s |-> <<>>, n |-> 0, ch |-> NoChannel, items |-> items]

\* bool(payload); a channel defines neither __bool__ nor __len__
PayTruthy(p) ==
    CASE p.k = "none" -> FALSE
      [] p.k = "int" -> p.n # 0
      [] p.k = "str" -> p.s # <<>>
      [] p.k = "channel" -> TRUE
      [] p.k \in {"list", "tuple", "dict"} -> p.items # <<>>

NoChannels == [done |-> FALSE, ok |-> FALSE, err |-> "none", chans |-> <<>>]
AnyReturned(chans) == [ok |-> TRUE, err |-> "none", chans |-> chans]
AnyRaised(e) == [ok |-> FALSE, err |-> e, chans |-> <<>>]

\* set(xs), the elements of list xs added one after the other
RECURSIVE SetOfList(_, _, _)
SetOfList(xs, i, set) ==
    IF i > Len(xs) THEN set
    ELSE CHOOSE r \in {SetOfList(xs, i + 1, u) : u \in {SetAdd(set, xs[i])}} : TRUE

\* list(set): the elements in one order; the order Python iterates a set in
\* is not modelled.
RECURSIVE ListOfSet(_)
ListOfSet(set) ==
    IF set = {} THEN <<>>
    ELSE CHOOSE r \in {<<c>> \o ListOfSet(set \ {c}) :
                          c \in {CHOOSE x \in set : TRUE}} : TRUE

\* list(set(xs))
ListOfSetOfList(xs) ==
    CHOOSE r \in {ListOfSet(u) : u \in {SetOfList(v, 1, {}) : v \in {xs}}} : TRUE

RECURSIVE extract_pipeline_channels_from_any(_)
RECURSIVE ExtractFromItems(_, _, _)
RECURSIVE ExtractFromDictItems(_, _, _)

\* for item in payload: pipeline_channels += extract_pipeline_channels_from_any(item)
ExtractFromItems(items, i, pipeline_channels) ==
    IF i > Len(items) THEN AnyReturned(pipeline_channels)
    ELSE CHOOSE x \in
           {IF ~r.ok THEN r
            ELSE CHOOSE y \in {ExtractFromItems(items, i + 1, acc) :
                                  acc \in {pipeline_channels \o r.chans}} : TRUE :
              r \in {extract_pipeline_channels_from_any(items[i])}} : TRUE

\* for key, value in payload.items(): the key, then the value
ExtractFromDictItems(items, i, pipeline_channels) ==
    IF i > Len(items) THEN AnyReturned(pipeline_channels)
    ELSE CHOOSE x \in
           {IF ~rk.ok THEN rk
            ELSE CHOOSE y \in
                   {IF ~rv.ok THEN rv
                    ELSE CHOOSE z \in {ExtractFromDictItems(items, i + 1, acc) :
                           acc \in {pipeline_channels \o rk.chans \o rv.chans}} : TRUE :
                      rv \in {extract_pipeline_channels_from_any(items[i].val)}} : TRUE :
              rk \in {extract_pipeline_channels_from_any(items[i].key)}} : TRUE

extract_pipeline_channels_from_any(p) ==
    IF ~PayTruthy(p) THEN AnyReturned(<<>>)
    ELSE IF p.k = "channel" THEN AnyReturned(<<p.ch>>)
    ELSE IF p.k = "str" THEN
        CHOOSE x \in
          {IF ~r.ok THEN AnyRaised(r.err)
           ELSE AnyReturned(ListOfSetOfList(ListOfSet(r.chans))) :
             r \in {extract_pipeline_channels_from_string(p.s)}} : TRUE
    ELSE IF p.k \in {"list", "tuple"} THEN
        CHOOSE x \in
          {IF ~r.ok THEN r ELSE AnyReturned(ListOfSetOfList(r.chans)) :
             r \in {ExtractFromItems(items, 1, <<>>) : items \in {p.items}}} : TRUE
    ELSE IF p.k = "dict" THEN
        CHOOSE x \in
          {IF ~r.ok THEN r ELSE AnyReturned(ListOfSetOfList(r.chans)) :
             r \in {ExtractFromDictItems(items, 1, <<>>) : items \in {p.items}}} : TRUE
    ELSE AnyReturned(<<>>)

(***************************************************************************)
(* The payloads: channel instances, texts holding placeholders, and lists, *)
(* tuples and dicts of them.                                               *)
(***************************************************************************)
TypeString == PyStr(<<"S","t","r","i","n","g">>)

\* Two parameter channels with one placeholder and different values, a
\* parameter channel of a task, and two artifact channels with one
\* placeholder, the type of one a dict and of the other its JSON text.
ParamOne == PipelineParameterChannel(<<"a">>, TypeString, PyNone, PyInt(1)).ch
ParamSeven == PipelineParameterChannel(<<"a">>, TypeString, PyNone, PyInt(7)).ch
ParamOfTask == PipelineParameterChannel(<<"a">>, TypeString, PyStr(<<"t">>), PyNone).ch
ArtifactDict == PipelineArtifactChannel(<<"a">>, DictAB, PyStr(<<"t">>)).ch
ArtifactText == PipelineArtifactChannel(<<"a">>, PyStr(JsonDumps(DictAB)), PyStr(<<"t">>)).ch
ChannelInputs == {ParamOne, ParamSeven, ParamOfTask, ArtifactDict, ArtifactText}

\* The placeholder template filled in by hand.
Placeholder(task_name, name, channel_type) ==
    PlaceholderTask \o task_name \o PlaceholderName \o name
    \o PlaceholderType \o channel_type \o PlaceholderEnd

TextOne == ChannelStr(ParamOne)
TextRepeated == ChannelStr(ParamOne) \o <<" ">> \o ChannelStr(ParamOne)
TextTwo == <<"x">> \o ChannelStr(ParamOfTask) \o ChannelStr(ArtifactDict)
\* the types {} and '' : different channels, one placeholder
TextEmptyTypes == Placeholder(<<"t">>, <<"a">>, <<"{", "}">>)
                  \o Placeholder(<<"t">>, <<"a">>, <<>>)
TextPlain == <<"e","c","h","o">>
\* a placeholder the regex matches and the constructor rejects
TextBadName == Placeholder(<<>>, <<"1">>, TypeString.s)
TextInputs == {TextOne, TextRepeated, TextTwo, TextEmptyTypes, TextPlain, TextBadName}

LeafInputs ==
    {PayChannel(c) : c \in ChannelInputs} \cup {PayStr(t) : t \in TextInputs}
    \cup {PayNone, PayInt(5), PayStr(<<>>), PaySequence("list", <<>>)}
ItemInputs == {PayChannel(ParamSeven), PayChannel(ArtifactText),
               PayStr(TextOne), PayStr(TextEmptyTypes)}
KeyInputs == {PayChannel(ParamOne), PayStr(TextOne), PayStr(<<"k">>)}

\* What a dict compares its keys by: a channel hashes as its placeholder
\* and its __eq__ is truthy against the text of the placeholder too.
KeyOf(p) == IF p.k = "channel" THEN ChannelStr(p.ch) ELSE p.s

\* The values in payload p: containers and their elements, keys not counted.
RECURSIVE Nodes(_)
RECURSIVE NodesOfItems(_, _, _)
NodesOfItems(kind, items, i) ==
    IF i > Len(items) THEN 0
    ELSE (IF kind = "dict" THEN Nodes(items[i].val) ELSE Nodes(items[i]))
         + NodesOfItems(kind, items, i + 1)
Nodes(p) ==
    IF p.k \in {"list", "tuple", "dict"} THEN 1 + NodesOfItems(p.k, p.items, 1) ELSE 1

Building == input # NoPayload /\ ~channels.done /\ ~extracted.done

NewPayload ==
    /\ input = NoPayload
    /\ \E p \in LeafInputs : input' = p
    /\ UNCHANGED <<chanVars, pair, treeVars, channels>>

\* [payload] or (payload,)
WrapSequence ==
    /\ Building
    /\ Nodes(input) < MaxNodes
    /\ \E kind \in {"list", "tuple"} : input' = PaySequence(kind, <<input>>)
    /\ UNCHANGED <<chanVars, pair, treeVars, channels>>

\* {key: payload}
WrapMapping ==
    /\ Building
    /\ Nodes(input) < MaxNodes
    /\ \E key \in KeyInputs : input' = PayDict(<<[key |-> key, val |-> input]>>)
    /\ UNCHANGED <<chanVars, pair, treeVars, channels>>

\* payload + [item]
AppendItem ==
    /\ Building
    /\ input.k \in {"list", "tuple"}
    /\ Nodes(input) < MaxNodes
    /\ \E item \in ItemInputs :
          input' = PaySequence(input.k, Append(input.items, item))
    /\ UNCHANGED <<chanVars, pair, treeVars, channels>>

\* payload[key] = item, for a key the dict does not hold
PutItem ==
    /\ Building
    /\ input.k = "dict"
    /\ Nodes(input) < MaxNodes
    /\ \E key \in KeyInputs, item \in ItemInputs :
          /\ \A i \in 1..Len(input.items) : KeyOf(input.items[i].key) # KeyOf(key)
          /\ input' = PayDict(Append(input.items, [key |-> key, val |-> item]))
    /\ UNCHANGED <<chanVars, pair, treeVars, channels>>

ExtractFromAny ==
    /\ input # NoPayload
    /\ ~channels.done
    /\ \E r \in {extract_pipeline_channels_from_any(input)} :
          channels' = [done |-> TRUE, ok |-> r.ok, err |-> r.err, chans |-> r.chans]
    /\ UNCHANGED <<chanVars, pair, treeVars, input>>

\* extract_pipeline_channels_from_string(payload) for a payload that is a text
ExtractFromText ==
    /\ input.k = "str"
    /\ ~extracted.done
    /\ \E r \in {extract_pipeline_channels_from_string(input.s)} :
          extracted' = [done |-> TRUE, ok |-> r.ok, err |-> r.err, chans |-> r.chans]
    /\ UNCHANGED <<op, res, pair, treeVars, anyVars>>

(***************************************************************************)
(* Specifications.                                                         *)
(***************************************************************************)

Init ==
    /\ op = NoOp
    /\ res = Raised("none")
    /\ extracted = NotExtracted
    /\ pair = NoPair
    /\ groups = [g \in {RootGroup} |-> [group_type |-> "PIPELINE", parent |-> RootGroup]]
    /\ tasks = [t \in {} |-> RootGroup]
    /\ stack = <<RootGroup>>
    /\ oneof = <<>>
    /\ ctor = "none"
    /\ topo = "none"
    /\ input = NoPayload
    /\ channels = NoChannels

\* Channels: construction and the decoding of the placeholder.
NextChannel ==
    \/ NewParameterChannel
    \/ NewArtifactChannel
    \/ CreatePipelineChannel
    \/ ExtractFromString
SpecChannel == Init /\ [][NextChannel]_vars

\* Pairs of channels.
NextPair ==
    \/ FirstOfPair
    \/ SecondOfPair
SpecPair == Init /\ [][NextPair]_vars

\* OneOf: the tree is built, a OneOf constructed and its topology validated.
NextOneOf ==
    \/ EnterGroup
    \/ ExitGroup
    \/ AddTask
    \/ NewOneOf
    \/ ValidateTopology
SpecOneOf == Init /\ [][NextOneOf]_vars

\* Extraction: a payload is built, then the channels in it are extracted.
NextAny ==
    \/ NewPayload
    \/ WrapSequence
    \/ WrapMapping
    \/ AppendItem
    \/ PutItem
    \/ ExtractFromAny
    \/ ExtractFromText
SpecAny == Init /\ [][NextAny]_vars

(***************************************************************************)
(* What the claims speak of.                                               *)
(***************************************************************************)
\* The grammar ^[A-Za-z][A-Za-z0-9 _-]*$
MatchesNameGrammar(s) ==
    /\ Len(s) >= 1
    /\ s[1] \in Letters
    /\ \A i \in 2..Len(s) : s[i] \in Letters \cup Digits \cup {" ", "_", "-"}

\* The (task, name, type) triple of a channel.
Triple(c) == <<c.task_name, c.name, c.channel_type>>

\* The groups enclosing group g, g included.
RECURSIVE Enclosing(_)
Enclosing(g) == IF g = RootGroup THEN {g} ELSE {g} \cup Enclosing(groups[g].parent)

\* The ancestor groups of task t; none when t is not in the tree.
AncestorsOf(t) == IF t \in DOMAIN tasks THEN Enclosing(tasks[t]) ELSE {}

HasAncestorOfType(t, group_type) ==
    \E g \in AncestorsOf(t) : groups[g].group_type = group_type

\* The tasks that produce the outputs of a OneOf.
ProducingTasks(outputs) ==
    {outputs[i].task_name : i \in 1..Len(outputs)} \ {NoTask}

RuleInvalidOperand(outputs) ==
    \E i \in 1..Len(outputs) :
        outputs[i].kind = "constant" \/ outputs[i].task_name = NoTask
RuleTypeMismatch(outputs) ==
    \E i, j \in 1..Len(outputs) :
        /\ outputs[i].kind = "channel"
        /\ outputs[j].kind = "channel"
        /\ outputs[i].channel_type # outputs[j].channel_type
RuleArity(outputs) == Len(outputs) < 2
RuleMissingCondition(outputs) ==
    \E t \in ProducingTasks(outputs) : ~HasAncestorOfType(t, "CONDITION")
RuleNonExclusive(outputs) ==
    \E t1, t2 \in ProducingTasks(outputs) :
        /\ t1 # t2
        /\ \E g \in AncestorsOf(t1) \cap AncestorsOf(t2) :
              groups[g].group_type = "CONDITION"
RuleLoop(outputs) ==
    \E t \in ProducingTasks(outputs) : HasAncestorOfType(t, "FOR_LOOP")

\* The rules of OneOf that `outputs` violates on the current tree.
ViolatedRules(outputs) ==
    {r \in {"InvalidOperand", "TypeMismatch", "ArityViolation",
            "MissingConditionAncestor", "NonExclusiveBranches", "LoopNotAllowed"} :
        CASE r = "InvalidOperand" -> RuleInvalidOperand(outputs)
          [] r = "TypeMismatch" -> RuleTypeMismatch(outputs)
          [] r = "ArityViolation" -> RuleArity(outputs)
          [] r = "MissingConditionAncestor" -> RuleMissingCondition(outputs)
          [] r = "NonExclusiveBranches" -> RuleNonExclusive(outputs)
          [] r = "LoopNotAllowed" -> RuleLoop(outputs)}

\* The first rule of `order` among the violated ones.
FirstViolated(order, outputs) ==
    LET v == ViolatedRules(outputs)
        at == CHOOSE i \in 1..Len(order) :
                  order[i] \in v /\ \A j \in 1..(i - 1) : order[j] \notin v
    IN order[at]

\* The OneOf has been rejected, or its validation has run to the end.
Validated == ctor \notin {"none", "ok"} \/ topo # "none"
\* What construction followed by _validate_topology reports.
Outcome == IF ctor # "ok" THEN ctor ELSE topo

(***************************************************************************)
(* C1.  Round trip: decoding the placeholder of a constructed channel      *)
(* gives exactly one channel, with the name, task name, channel type and   *)
(* variant of the original.  Stated for the channels whose task name is    *)
(* absent or matches the naming grammar.                                   *)
(***************************************************************************)
C1_RoundTrip ==
    (/\ extracted.done
     /\ res.ch.task_name # PyNone => MatchesNameGrammar(res.ch.task_name.s)) =>
        /\ extracted.ok
        /\ Cardinality(extracted.chans) = 1
        /\ \A d \in extracted.chans :
              /\ d.name = res.ch.name
              /\ d.task_name = res.ch.task_name
              /\ d.channel_type = res.ch.channel_type
              /\ d.variant = res.ch.variant

(***************************************************************************)
(* C2.  Encoding is injective: two constructed channels whose (task name,  *)
(* name, channel type) triples differ have different placeholders.         *)
(***************************************************************************)
C2_EncodeInjective ==
    (pair[1] # NoChannel /\ pair[2] # NoChannel /\ Triple(pair[1]) # Triple(pair[2]))
        => ChannelStr(pair[1]) # ChannelStr(pair[2])

(***************************************************************************)
(* C3.  The error reported for a OneOf that violates several rules is the  *)
(* first violated rule in the order InvalidOperand, TypeMismatch,          *)
(* ArityViolation, MissingConditionAncestor, NonExclusiveBranches,         *)
(* LoopNotAllowed (the claim as stated).                                   *)
(***************************************************************************)
ClaimedOrder ==
    <<"InvalidOperand", "TypeMismatch", "ArityViolation",
      "MissingConditionAncestor", "NonExclusiveBranches", "LoopNotAllowed">>

ReportedOrder ==
    <<"InvalidOperand", "TypeMismatch", "ArityViolation",
      "LoopNotAllowed", "NonExclusiveBranches", "MissingConditionAncestor">>

C4_SharedConditionIsNonExclusive ==
    topo # "none" =>
        /\ topo = "ok" => ~RuleNonExclusive(oneof)
        /\ RuleNonExclusive(oneof) => topo = "NonExclusiveBranches"

(***************************************************************************)
(* C4, amended.  A validation that succeeds leaves no Condition group      *)
(* above two different producing tasks; two different producing tasks      *)
(* under a common Condition group make the validation fail, with           *)
(* NonExclusiveBranches when no producing task has a ParallelFor ancestor  *)
(* and with LoopNotAllowed when one has.                                   *)
(***************************************************************************)
C4_SharedConditionIsRejected ==
    topo # "none" =>
        /\ topo = "ok" => ~RuleNonExclusive(oneof)
        /\ RuleNonExclusive(oneof) =>
              topo = IF RuleLoop(oneof) THEN "LoopNotAllowed"
                     ELSE "NonExclusiveBranches"

\* Two tasks declared in the same Condition group have been rejected as
\* not mutually exclusive.
C4_Witness ==
    /\ topo = "NonExclusiveBranches"
    /\ \E t1, t2 \in ProducingTasks(oneof) \cap DOMAIN tasks :
          /\ t1 # t2
          /\ tasks[t1] = tasks[t2]
          /\ groups[tasks[t1]].group_type = "CONDITION"

(***************************************************************************)
(* C5.  Two different outputs of one task that sits in a Condition group   *)
(* are rejected by the validation of the OneOf.                            *)
(***************************************************************************)
C5_TwoOutputsOfOneTaskRejected ==
    (/\ topo # "none"
     /\ \E i, j \in 1..Len(oneof) :
           /\ oneof[i].task_name = oneof[j].task_name
           /\ oneof[i].name # oneof[j].name
           /\ oneof[i].task_name \in DOMAIN tasks
           /\ groups[tasks[oneof[i].task_name]].group_type = "CONDITION")
        => topo # "ok"

(***************************************************************************)
(* C6.  Loop rejection: when a producing task of the OneOf has a           *)
(* ParallelFor group anywhere among its ancestors, _validate_topology      *)
(* fails with LoopNotAllowed; after a successful validation no producing   *)
(* task has a ParallelFor ancestor.                                        *)
(***************************************************************************)
C6_LoopRejected ==
    topo # "none" =>
        /\ RuleLoop(oneof) => topo = "LoopNotAllowed"
        /\ topo = "ok" => ~RuleLoop(oneof)

\* t1 inside a ParallelFor nested in Condition c1, t2 inside Condition c2:
\* rejected as LoopNotAllowed.
C6_Witness ==
    /\ topo = "LoopNotAllowed"
    /\ \E t1, t2 \in ProducingTasks(oneof) \cap DOMAIN tasks :
          /\ groups[tasks[t1]].group_type = "FOR_LOOP"
          /\ groups[groups[tasks[t1]].parent].group_type = "CONDITION"
          /\ groups[groups[tasks[t1]].parent].parent = RootGroup
          /\ groups[tasks[t2]].group_type = "CONDITION"
          /\ groups[tasks[t2]].parent = RootGroup
          /\ tasks[t2] # groups[tasks[t1]].parent

(***************************************************************************)
(* C7.  Conditional gating: _validate_topology succeeds only if every     *)
(* producing task of the OneOf has an ancestor group of kind Condition; a  *)
(* producing task that is not in the tree has none.                        *)
(***************************************************************************)
C7_EveryTaskConditionallyGated ==
    topo = "ok" =>
        \A t \in ProducingTasks(oneof) : HasAncestorOfType(t, "CONDITION")

(***************************************************************************)
(* C8.  Arity: a OneOf of no output, or of one task output, is rejected    *)
(* with ArityViolation.                                                    *)
(***************************************************************************)
C8_FewerThanTwoIsArityViolation ==
    (/\ ctor # "none"
     /\ Len(oneof) < 2
     /\ \A i \in 1..Len(oneof) :
           oneof[i].kind = "channel" /\ oneof[i].task_name # NoTask)
        => ctor = "ArityViolation"

(***************************************************************************)
(* C9.  Conflicting source: a channel asked for with both a producing      *)
(* task and a literal value, falsy literals included, is not created: no   *)
(* constructed parameter channel has both task_name and value set.         *)
(***************************************************************************)
C9_TaskAndValueConflict ==
    (res.ok /\ res.ch.variant = "parameter") =>
        ~(res.ch.task_name # PyNone /\ res.ch.value # PyNone)

(***************************************************************************)
(* C10.  Naming grammar: a channel is created only if its name matches     *)
(* ^[A-Za-z][A-Za-z0-9 _-]*$ and, when a producing task is given, the task *)
(* name matches it too.                                                    *)
(***************************************************************************)
C10_NamesMatchGrammar ==
    (op.fn # "none" /\ res.ok) =>
        /\ MatchesNameGrammar(op.name)
        /\ Truthy(op.task_name) => MatchesNameGrammar(op.task_name.s)

(***************************************************************************)
(* C11.  Variant dispatch: create_pipeline_channel returns a parameter     *)
(* channel exactly when the channel type is a parameter type and an        *)
(* artifact channel otherwise; and asked for a channel of an artifact type *)
(* with a literal value (a valid name, no producing task), it fails with   *)
(* TypeMismatch instead of returning a channel.                            *)
(***************************************************************************)
C11_VariantDispatch ==
    op.fn = "create_pipeline_channel" =>
        /\ res.ok => (res.ch.variant = "parameter" <=> is_parameter_type(op.channel_type))
        /\ res.ok => res.ch.variant \in {"parameter", "artifact"}
        /\ (/\ ~is_parameter_type(op.channel_type)
            /\ op.value # PyNone
            /\ op.task_name = PyNone
            /\ MatchesNameGrammar(op.name))
               => (~res.ok /\ res.err = "TypeMismatch")

(***************************************************************************)
(* C12.  Every artifact channel that exists, built directly, through       *)
(* create_pipeline_channel or reconstructed from a placeholder, has a      *)
(* producing task and carries no literal value.                            *)
(***************************************************************************)
C12_ArtifactHasProducingTask ==
    /\ (res.ok /\ res.ch.variant = "artifact") =>
          (Truthy(res.ch.task_name) /\ res.ch.value = PyNone)
    /\ \A d \in extracted.chans :
          d.variant = "artifact" => (Truthy(d.task_name) /\ d.value = PyNone)

(***************************************************************************)
(* C13.  De-duplication: the channels extracted from a text, and from any  *)
(* payload (a channel, a text, lists, tuples and dicts of them, nested),   *)
(* hold no two channels with the same placeholder, however often a         *)
(* placeholder or a channel occurs in the input; and from a list or tuple  *)
(* of channel instances only, the result is exactly the set of those       *)
(* channels, channels being equal when their placeholders are.             *)
(***************************************************************************)
\* The channel instances that are the elements of the payload.
ElementChannels == {input.items[i].ch : i \in 1..Len(input.items)}
OnlyChannels ==
    /\ input.k \in {"list", "tuple"}
    /\ \A i \in 1..Len(input.items) : input.items[i].k = "channel"
Extracted == {channels.chans[i] : i \in 1..Len(channels.chans)}

C13_NoDuplicates ==
    /\ (extracted.done /\ extracted.ok) =>
          \A c, d \in extracted.chans : c # d => ChannelStr(c) # ChannelStr(d)
    /\ (channels.done /\ channels.ok) =>
          /\ \A i, j \in 1..Len(channels.chans) :
                i # j => ChannelStr(channels.chans[i]) # ChannelStr(channels.chans[j])
          /\ OnlyChannels =>
                /\ Extracted \subseteq ElementChannels
                /\ {ChannelStr(c) : c \in Extracted}
                      = {ChannelStr(c) : c \in ElementChannels}

\* Two instances with one placeholder in a list: one channel is extracted.
C13_Witness ==
    /\ channels.done
    /\ channels.ok
    /\ Len(channels.chans) = 1
    /\ OnlyChannels
    /\ ElementChannels = {ParamOne, ParamSeven}

====
